---------------------------- MODULE Spec2Model ----------------------------
(***************************************************************************)
(* A model of src/Converters.py: class Converter, which remaps the notes   *)
(* of a MIDI file (convert), reduces its tracks to note events             *)
(* (note_only) and checks a message list for ties (_check_ties).           *)
(*                                                                         *)
(* mido messages are mutable objects.  They live in `heap', a sequence     *)
(* indexed by object identity; a track is a sequence of identities.  The   *)
(* two MidiFile references of a Converter may denote one object            *)
(* (line 42), which `dest_is_source' records.                              *)
(***************************************************************************)
EXTENDS Integers, Sequences, FiniteSets, TLC

(* Bounds of the model. *)
MaxMsgs == 2            \* messages of one file
MaxTracks == 1          \* tracks of one file

(* The values the inputs are drawn from. *)
Notes == {36, 38}                       \* note numbers of the files and of the table
TimeValues == {0, 4}                    \* delta times (ticks) of the messages
TicksPerBeatValues == {480, 0}          \* ticks_per_beat of the files read
NoteTypes == {"note_on", "note_off"}

NoteMsgs == [type : NoteTypes, note : Notes, time : TimeValues]
OtherMsgs == [type : {"control_change"}, time : TimeValues]
Msgs == NoteMsgs \cup OtherMsgs

VARIABLES
    heap,             \* the mido.Message objects: identity -> fields
    source_mid,       \* self._source_mid: [tracks, ticks_per_beat]
    destination_mid,  \* self._destination_mid: [tracks, ticks_per_beat]
    dest_is_source,   \* self._destination_mid is self._source_mid
    mapping_dict,     \* self._mapping_dict
    last              \* the last call: its name, arguments as they were, outcome

vars == <<heap, source_mid, destination_mid, dest_is_source, mapping_dict, last>>

(* self._quantize_threshold, set by __init__ and never assigned again. *)
quantize_threshold == 100

(* ticks_per_beat of MidiFile() built without a file. *)
DefaultTicksPerBeat == 480

EmptyDict == [n \in {} |-> 0]

RECURSIVE SumSeq(_)
SumSeq(s) == IF s = <<>> THEN 0 ELSE Head(s) + SumSeq(Tail(s))

RECURSIVE Concat(_)
Concat(ss) == IF ss = <<>> THEN <<>> ELSE Head(ss) \o Concat(Tail(ss))

(* The record of a call: the method, what it returned or raised, the      *)
(* track lists it was given, the heap as it was when the call was made,    *)
(* the csv file convert met and the run bookkeeping of _check_ties.        *)
NoTies == [calls |-> <<>>, simultaneous_list |-> <<>>, consumed |-> 0]
NoCsv == [kind |-> "none"]

Call(op, result, in_tracks) ==
    [op |-> op, result |-> result, in_tracks |-> in_tracks,
     pre_heap |-> heap, csv |-> NoCsv, ties |-> NoTies]

-----------------------------------------------------------------------------
(* The tracks of a file whose k-th track has lens[k] messages, the         *)
(* messages being the objects 1, 2, ... in file order.                     *)
TracksOf(lens) ==
    [k \in 1..Len(lens) |->
        [j \in 1..lens[k] |-> SumSeq(SubSeq(lens, 1, k - 1)) + j]]

(* Converter.__init__ followed by Converter.read_file, as in lines 155-156 *)
(* of the script: the source file is the file read, with fresh message     *)
(* objects; the destination file is the empty MidiFile() of line 15.       *)
Init ==
    /\ \E k \in 0..MaxTracks :
       \E lens \in [1..k -> 0..MaxMsgs] :
           /\ SumSeq(lens) <= MaxMsgs
           /\ heap \in [1..SumSeq(lens) -> Msgs]
           /\ \E tpb \in TicksPerBeatValues :
                source_mid = [tracks |-> TracksOf(lens), ticks_per_beat |-> tpb]
    /\ destination_mid = [tracks |-> <<>>, ticks_per_beat |-> DefaultTicksPerBeat]
    /\ dest_is_source = FALSE
    /\ mapping_dict = EmptyDict
    /\ last = [op |-> "read_file", result |-> "MidiFile", in_tracks |-> <<>>,
               pre_heap |-> <<>>, csv |-> NoCsv, ties |-> NoTies]

(* A slip of line 123: note_off is left out.                               *)
MsgIsNoteOn(msg) == msg.type = "note_on"

(* Converter._msg_is_note_on_note_off *)
MsgIsNoteOnNoteOff(msg) == msg.type = "note_on" \/ msg.type = "note_off"

-----------------------------------------------------------------------------
(* The rows a mapping table may hold for the two formats of the           *)
(* Converter: source note |-> destination note.                            *)
TableRows == (36 :> 38) @@ (38 :> 40)

(* The dicts line 146 can build: the rows present in the file. *)
Dicts == {[n \in S |-> TableRows[n]] : S \in SUBSET Notes}

(* The contents of ./mapping.csv as _load_mapping meets them: the file is  *)
(* absent, it lacks the column of one of the two formats, or it yields the *)
(* dict of the source column zipped with the destination column.           *)
CsvTables ==
    {[kind |-> "missing_file"], [kind |-> "no_format"]}
        \cup {[kind |-> "table", dict |-> d] : d \in Dicts}

(* Converter._load_mapping: read_csv's FileNotFoundError is no ValueError  *)
(* and propagates; a ValueError is printed and the dict keeps its value.   *)
LoadMapping(csv, dict) ==
    IF csv.kind = "missing_file" THEN [raised |-> TRUE, dict |-> dict]
    ELSE IF csv.kind = "no_format" THEN [raised |-> FALSE, dict |-> dict]
    ELSE [raised |-> FALSE, dict |-> csv.dict]

(* A slip of line 49: the looked-up note is never stored.                 *)
ConvertMsgUnstored(msg, dict) == msg

(* Converter.convert, line 49: msg.note = self._mapping_dict[old_note] *)
ConvertMsg(msg, dict) == [msg EXCEPT !.note = dict[msg.note]]

(* Converter.convert, lines 44-49: the loops over the tracks and their     *)
(* messages, ids being the messages in the order the loops visit them.  A  *)
(* note absent from the dict raises KeyError out of the loops.             *)
RECURSIVE ConvertLoop(_, _, _, _)
ConvertLoop(h, ids, i, dict) ==
    IF i > Len(ids) THEN [heap |-> h, result |-> "MidiFile"]
    ELSE LET msg == h[ids[i]] IN
         IF MsgIsNoteOnNoteOff(msg)
         THEN IF msg.note \in DOMAIN dict
              THEN ConvertLoop([h EXCEPT ![ids[i]] = ConvertMsg(msg, dict)],
                               ids, i + 1, dict)
              ELSE [heap |-> h, result |-> "KeyError"]
         ELSE ConvertLoop(h, ids, i + 1, dict)

(* Converter.convert *)
Convert ==
    \E csv \in CsvTables :
        LET load == LoadMapping(csv, mapping_dict) IN
        IF load.raised
        THEN /\ last' = [Call("convert", "FileNotFoundError", source_mid.tracks)
                            EXCEPT !.csv = csv]
             /\ UNCHANGED <<heap, source_mid, destination_mid, dest_is_source,
                            mapping_dict>>
        ELSE LET r == ConvertLoop(heap, Concat(source_mid.tracks), 1, load.dict) IN
             /\ mapping_dict' = load.dict
             /\ destination_mid' = source_mid
             /\ dest_is_source' = TRUE
             /\ heap' = r.heap
             /\ last' = [Call("convert", r.result, source_mid.tracks)
                            EXCEPT !.csv = csv]
             /\ UNCHANGED source_mid

-----------------------------------------------------------------------------
(* A slip of line 79: the time of the message alone, nothing carried.     *)
ElapsedForgetful(t, msg) == msg.time

(* Converter._make_list_notes_only, line 79:                               *)
(* time_since_last_note_msg += msg.time                                    *)
Elapsed(t, msg) == t + msg.time

(* A slip of line 83: the counter is not reset after a note message.      *)
AfterNoteKept(t) == t

(* Converter._make_list_notes_only, line 83: time_since_last_note_msg = 0 *)
AfterNote(t) == 0

(* Converter._make_list_notes_only, lines 78-83: the loop from message i   *)
(* on, t being time_since_last_note_msg.                                   *)
RECURSIVE MakeListLoop(_, _, _, _, _)
MakeListLoop(h, msg_list, i, t, new_list) ==
    IF i > Len(msg_list) THEN [heap |-> h, track |-> new_list]
    ELSE LET id == msg_list[i]
             elapsed == Elapsed(t, h[id])
         IN  IF MsgIsNoteOnNoteOff(h[id])
             THEN MakeListLoop([h EXCEPT ![id].time = elapsed], msg_list, i + 1,
                               AfterNote(elapsed), Append(new_list, id))
             ELSE MakeListLoop(h, msg_list, i + 1, elapsed, new_list)

(* Converter._make_list_notes_only *)
MakeListNotesOnly(h, msg_list) == MakeListLoop(h, msg_list, 1, 0, <<>>)

(* Converter.note_only, line 57: the list comprehension over the tracks of *)
(* the destination file, from track k on.                                  *)
RECURSIVE NoteOnlyLoop(_, _, _, _)
NoteOnlyLoop(h, tracks, k, new_track_list) ==
    IF k > Len(tracks) THEN [heap |-> h, tracks |-> new_track_list]
    ELSE LET r == MakeListNotesOnly(h, tracks[k]) IN
         NoteOnlyLoop(r.heap, tracks, k + 1, Append(new_track_list, r.track))

(* Converter.note_only on the state: the new heap and the new track list.  *)
NoteOnlyResult(h, tracks) == NoteOnlyLoop(h, tracks, 1, <<>>)

(* Assigning .tracks of the destination file assigns it in the source file *)
(* too when the two are one object.                                        *)
SetDestinationTracks(tracks) ==
    /\ destination_mid' = [destination_mid EXCEPT !.tracks = tracks]
    /\ source_mid' = IF dest_is_source
                     THEN [source_mid EXCEPT !.tracks = tracks]
                     ELSE source_mid

(* Converter.note_only *)
NoteOnly ==
    LET r == NoteOnlyResult(heap, destination_mid.tracks) IN
    /\ heap' = r.heap
    /\ SetDestinationTracks(r.tracks)
    /\ last' = Call("note_only", "MidiFile", destination_mid.tracks)
    /\ UNCHANGED <<dest_is_source, mapping_dict>>

(* Converter.resolve_ties: note_only, then NotImplementedError. *)
ResolveTies ==
    LET r == NoteOnlyResult(heap, destination_mid.tracks) IN
    /\ heap' = r.heap
    /\ SetDestinationTracks(r.tracks)
    /\ last' = Call("resolve_ties", "NotImplementedError", destination_mid.tracks)
    /\ UNCHANGED <<dest_is_source, mapping_dict>>

-----------------------------------------------------------------------------
(* Converter._check_simultaneous.  Line 133 divides ticks_per_beat by the  *)
(* quantize threshold: ZeroDivisionError when that is 0.  Line 134         *)
(* subtracts msg_list[-1], the Message object and not its time, from the   *)
(* int msg_list[0].time: int - Message is no operation of either type, so  *)
(* the call raises TypeError whatever the messages and the threshold are.  *)
CheckSimultaneous(h, msg_list, ticks_per_beat) ==
    IF quantize_threshold = 0 THEN "ZeroDivisionError" ELSE "TypeError"

(* Converter._check_ties, lines 106-119: the loop from message i on.       *)
(* calls lists the calls of _check_simultaneous made so far.               *)
RECURSIVE CheckTiesLoop(_, _, _, _, _, _, _)
CheckTiesLoop(h, msg_list, i, current_status, simultaneous_list, calls, tpb) ==
    IF i > Len(msg_list)
    THEN [result |-> "True", calls |-> calls,
          simultaneous_list |-> simultaneous_list, consumed |-> Len(msg_list)]
    ELSE LET msg == h[msg_list[i]] IN
         IF ~MsgIsNoteOnNoteOff(msg)
         THEN CheckTiesLoop(h, msg_list, i + 1, current_status, simultaneous_list,
                            calls, tpb)
         ELSE LET status == IF simultaneous_list = <<>> THEN msg.type
                            ELSE current_status
              IN  IF msg.type = status
                  THEN CheckTiesLoop(h, msg_list, i + 1, status,
                                     Append(simultaneous_list, msg_list[i]),
                                     calls, tpb)
                  ELSE LET sim == CheckSimultaneous(h, simultaneous_list, tpb)
                           made == Append(calls, [run |-> simultaneous_list,
                                                  result |-> sim])
                       IN  IF sim = "True"
                           THEN CheckTiesLoop(h, msg_list, i + 1, status, <<>>,
                                              made, tpb)
                           ELSE [result |-> IF sim = "False" THEN "False" ELSE sim,
                                 calls |-> made,
                                 simultaneous_list |-> simultaneous_list,
                                 consumed |-> i]

(* Converter._check_ties *)
CheckTiesResult(h, msg_list, tpb) == CheckTiesLoop(h, msg_list, 1, "", <<>>, <<>>, tpb)

(* The message lists at hand for _check_ties: the tracks of the two files. *)
TrackLists ==
    {source_mid.tracks[k] : k \in 1..Len(source_mid.tracks)}
        \cup {destination_mid.tracks[k] : k \in 1..Len(destination_mid.tracks)}

(* A call of Converter._check_ties on one of the tracks. *)
CheckTies ==
    \E msg_list \in TrackLists :
        LET r == CheckTiesResult(heap, msg_list, source_mid.ticks_per_beat) IN
        /\ last' = [Call("check_ties", r.result, <<msg_list>>)
                       EXCEPT !.ties = [calls |-> r.calls,
                                        simultaneous_list |-> r.simultaneous_list,
                                        consumed |-> r.consumed]]
        /\ UNCHANGED <<heap, source_mid, destination_mid, dest_is_source,
                       mapping_dict>>

-----------------------------------------------------------------------------
Next ==
    \/ Convert
    \/ NoteOnly
    \/ ResolveTies
    \/ CheckTies

Spec == Init /\ [][Next]_vars

-----------------------------------------------------------------------------
(* What the properties below speak of. *)

(* The objects of a list of tracks. *)
IdsOf(tracks) == UNION {{tracks[k][j] : j \in 1..Len(tracks[k])} : k \in 1..Len(tracks)}

IsNote(h, id) == h[id].type \in NoteTypes

(* The note events of a message list, in order. *)
NoteSubseq(h, msg_list) == SelectSeq(msg_list, LAMBDA id : IsNote(h, id))

(* The place of an object in a message list. *)
Pos(msg_list, id) == CHOOSE i \in 1..Len(msg_list) : msg_list[i] = id

(* The tick at which message j of a list sounds, from the start of the list. *)
TickOf(h, msg_list, j) == SumSeq([i \in 1..j |-> h[msg_list[i]].time])

(* The maximal runs of consecutive note events of one kind. *)
RECURSIVE MaximalRuns(_, _)
MaximalRuns(h, notes) ==
    IF notes = <<>> THEN <<>>
    ELSE LET rest == MaximalRuns(h, Tail(notes)) IN
         IF rest # <<>> /\ h[Head(rest)[1]].type = h[Head(notes)].type
         THEN <<<<Head(notes)>> \o Head(rest)>> \o Tail(rest)
         ELSE <<<<Head(notes)>>>> \o rest

(* The ticks between the first and the last event of a run, the first      *)
(* event being the reference time of the run.                              *)
Spread(h, run) == SumSeq([i \in 1..(Len(run) - 1) |-> h[run[i + 1]].time])

(* A run is simultaneous below the threshold ticks_per_beat / D, 4 ticks   *)
(* for 480 and 100.                                                        *)
Simultaneous(h, run, tpb) == Spread(h, run) < tpb \div quantize_threshold

(* The runs _check_ties formed: those it handed to _check_simultaneous     *)
(* and, when the loop ran to its end, the list it was still collecting.    *)
RunsFormed ==
    [c \in 1..Len(last.ties.calls) |-> last.ties.calls[c].run]
        \o (IF last.result = "True" /\ last.ties.simultaneous_list # <<>>
            THEN <<last.ties.simultaneous_list>> ELSE <<>>)

-----------------------------------------------------------------------------
(* C1: remap totality.  When every note-on/note-off note of the file has   *)
(* an entry in the mapping table, convert succeeds, the tracks hold the    *)
(* same messages in the same order, every kind and delta time is as it     *)
(* was, every note event carries table[original note] and every other      *)
(* event is unchanged.                                                     *)
C1_RemapTotality ==
    (/\ last.op = "convert"
     /\ last.csv.kind = "table"
     /\ \A id \in IdsOf(last.in_tracks) :
            IsNote(last.pre_heap, id) =>
                last.pre_heap[id].note \in DOMAIN last.csv.dict)
    => /\ last.result = "MidiFile"
       /\ destination_mid.tracks = last.in_tracks
       /\ Len(heap) = Len(last.pre_heap)
       /\ \A id \in IdsOf(last.in_tracks) :
            /\ heap[id].type = last.pre_heap[id].type
            /\ heap[id].time = last.pre_heap[id].time
            /\ IF IsNote(last.pre_heap, id)
               THEN heap[id].note = last.csv.dict[last.pre_heap[id].note]
               ELSE heap[id] = last.pre_heap[id]

(* A convert of a file with a note event and another event, all mapped. *)
C1_Witness ==
    /\ last.op = "convert"
    /\ last.csv.kind = "table"
    /\ last.result = "MidiFile"
    /\ \E id \in IdsOf(last.in_tracks) : IsNote(last.pre_heap, id)
    /\ \E id \in IdsOf(last.in_tracks) : ~IsNote(last.pre_heap, id)

(* C2: remap failure is all or nothing.  When convert fails on a note      *)
(* without an entry, no event has been remapped.                           *)
C2_RemapAllOrNothing ==
    (last.op = "convert" /\ last.result = "KeyError") => heap = last.pre_heap

(* C3: reduction preserves absolute timing.  Every event note_only keeps   *)
(* sounds at the tick of its track at which it sounded before.             *)
C3_ReductionPreservesTiming ==
    last.op = "note_only" =>
        /\ Len(destination_mid.tracks) = Len(last.in_tracks)
        /\ \A k \in 1..Len(last.in_tracks) :
            LET out == destination_mid.tracks[k]
                inp == last.in_tracks[k]
            IN  \A j \in 1..Len(out) :
                    TickOf(heap, out, j)
                        = TickOf(last.pre_heap, inp, Pos(inp, out[j]))

(* A note_only that folded the time of a discarded event into a kept one. *)
C3_Witness ==
    /\ last.op = "note_only"
    /\ \E k \in 1..Len(last.in_tracks) :
       \E j \in 1..Len(destination_mid.tracks[k]) :
            LET id == destination_mid.tracks[k][j] IN
            heap[id].time > last.pre_heap[id].time

(* C4: reduction idempotence.  note_only applied to the state a note_only  *)
(* left changes neither a track nor a message.                             *)
C4_ReductionIdempotent ==
    last.op = "note_only" =>
        LET again == NoteOnlyResult(heap, destination_mid.tracks) IN
        /\ again.tracks = destination_mid.tracks
        /\ again.heap = heap

(* A note_only that dropped an event and changed a delta time, with two    *)
(* events kept.                                                            *)
C4_Witness ==
    /\ last.op = "note_only"
    /\ heap # last.pre_heap
    /\ \E k \in 1..Len(last.in_tracks) :
        /\ destination_mid.tracks[k] # last.in_tracks[k]
        /\ destination_mid.tracks[k] # <<>>

(* C5: note_only keeps exactly the note-on/note-off events of each track,  *)
(* in their order, with their kind and note; a track without note events   *)
(* becomes the empty track.                                                *)
C5_RetainsExactlyNotes ==
    last.op = "note_only" =>
        /\ Len(destination_mid.tracks) = Len(last.in_tracks)
        /\ \A k \in 1..Len(last.in_tracks) :
            /\ destination_mid.tracks[k]
                   = NoteSubseq(last.pre_heap, last.in_tracks[k])
            /\ \A j \in 1..Len(destination_mid.tracks[k]) :
                 LET id == destination_mid.tracks[k][j] IN
                 /\ heap[id].type = last.pre_heap[id].type
                 /\ heap[id].note = last.pre_heap[id].note

(* A note_only of a track holding a note-off event and another event. *)
C5_Witness ==
    /\ last.op = "note_only"
    /\ \E k \in 1..Len(last.in_tracks) :
        /\ \E j \in 1..Len(last.in_tracks[k]) :
               last.pre_heap[last.in_tracks[k][j]].type = "note_off"
        /\ \E j \in 1..Len(last.in_tracks[k]) :
               ~IsNote(last.pre_heap, last.in_tracks[k][j])
        /\ Len(destination_mid.tracks[k]) < Len(last.in_tracks[k])

(* C6: the tie check returns true iff every maximal run of the track, the  *)
(* last one included, is simultaneous, and false otherwise.                *)
C6_TieVerdict ==
    last.op = "check_ties" =>
        LET runs == MaximalRuns(last.pre_heap,
                                NoteSubseq(last.pre_heap, last.in_tracks[1]))
            tie_free == \A r \in 1..Len(runs) :
                Simultaneous(last.pre_heap, runs[r], source_mid.ticks_per_beat)
        IN  last.result = IF tie_free THEN "True" ELSE "False"

(* C7: a run handed to the simultaneity test is classified simultaneous    *)
(* iff its spread is strictly below ticks_per_beat / D.                    *)
C7_PerRunTest ==
    last.op = "check_ties" =>
        \A c \in 1..Len(last.ties.calls) :
            last.ties.calls[c].result
                = IF Simultaneous(last.pre_heap, last.ties.calls[c].run,
                                  source_mid.ticks_per_beat)
                  THEN "True" ELSE "False"

(* C8: with a ticks_per_beat or a divisor that is not positive the tie     *)
(* check fails with InvalidConfiguration and returns no verdict.           *)
C8_ConfigurationValidated ==
    (/\ last.op = "check_ties"
     /\ (source_mid.ticks_per_beat <= 0 \/ quantize_threshold <= 0))
    => last.result = "InvalidConfiguration"

(* C9: convert and note_only leave their input as it was: every message    *)
(* of the tracks they were given keeps its note and its delta time, and    *)
(* the file convert returns is not the source file.                        *)
C9_InputUnchanged ==
    last.op \in {"convert", "note_only"} =>
        /\ \A id \in IdsOf(last.in_tracks) : heap[id] = last.pre_heap[id]
        /\ (last.op = "convert" /\ last.result = "MidiFile") => ~dest_is_source

(* C10: the tie check partitions the note events of the track into their   *)
(* maximal runs of one kind, the event at which the kind changes opening   *)
(* the next run.                                                           *)
C10_RunSegmentation ==
    last.op = "check_ties" =>
        RunsFormed = MaximalRuns(last.pre_heap,
                                 NoteSubseq(last.pre_heap, last.in_tracks[1]))

=============================================================================
